---- MODULE Spec2Model ----
(***************************************************************************)
(* Model of anyech/openclaw-gmail-reader: the OAuth token lifecycle        *)
(* (token.json written by the exchange / setup scripts and read and        *)
(* refreshed by GmailReader.get_credentials), the authorization-URL        *)
(* builders, and the Drive indexer (path reconstruction, change            *)
(* detection, index file).                                                 *)
(*                                                                         *)
(* JSON objects are TLA+ records whose DOMAIN is the set of keys present.  *)
(* JSON null and Python None are the string Null.  Time is a clock of      *)
(* ticks; an expiry is a record [fmt, t] whose fmt says how the instant t  *)
(* is represented (datetime in memory, ISO string or epoch float in JSON). *)
(* The Google token endpoint and the consent flow are the environment:     *)
(* their answers are drawn from TokenResponses.                            *)
(***************************************************************************)
EXTENDS Integers, Sequences, FiniteSets, TLC

VARIABLES
    now,            \* wall clock, in ticks
    clientSecrets,  \* credentials/client_secrets.json: NoFile or its "web" object
    tokenFile,      \* credentials/token.json: NoFile or the JSON object stored
    lastRun,        \* what the most recent script run did (observation record)
    urlIn,          \* inputs of the URL builder: client id, redirect URI, scopes
    urlBy,          \* which script built urlOut ("none" before the first run)
    urlOut,         \* the URL printed by the latest run
    driveFolders,   \* Drive: what files.list returns for the folder query
    driveFiles,     \* Drive: what files.list returns for all files
    indexFile,      \* memory/drive_index.json: NoFile or {updated, files}
    pc,             \* position of the indexer run
    folders,        \* fetch_all_files: folders dict
    files,          \* fetch_all_files: files dict (insertion ordered)
    idx,            \* fetch_all_files: position in the file listing
    path_parts,     \* fetch_all_files: ancestors found so far
    parent_ids,     \* fetch_all_files: parents list being followed
    changes,        \* ids and records returned by detect_changes
    email,          \* the email dict handed to categorize_priority
    priority,       \* what categorize_priority returned ("none" before)
    service,        \* GmailReader.service: "None" or "built"
    methodCalls,    \* methods called on the GmailReader instance so far
    gcCalls,        \* how often the instance has called get_credentials
    gcFailed,       \* how many of these calls raised
    fileReads,      \* how often the instance has read token.json
    lastCall        \* the latest method call on the instance and its outcome

credVars == <<now, clientSecrets, tokenFile, lastRun>>
urlVars == <<urlIn, urlBy, urlOut>>
driveVars ==
    <<driveFolders, driveFiles, indexFile, pc, folders, files, idx,
      path_parts, parent_ids, changes>>
mailVars == <<email, priority>>
readerVars ==
    <<service, methodCalls, gcCalls, gcFailed, fileReads, lastCall>>
vars == <<credVars, urlVars, driveVars, mailVars, readerVars>>

----------------------------------------------------------------------------
(* Bounds *)

MaxTime == 2        \* the clock stops here
MaxCalls == 3       \* method calls on one GmailReader instance
ExpiresIn == 1      \* lifetime (ticks) the token endpoint grants: "expires_in"

(* Values *)

Null == "null"
NoFile == [nofile |-> TRUE]

AccessTokens == {"A1", "A2"}
RefreshTokens == {"R1", "R2"}
ClientSecretsFiles ==
    { [client_id |-> "X", client_secret |-> "Y"],
      [client_id |-> "X2", client_secret |-> "Y2"] }

TOKEN_ENDPOINT == "https://oauth2.googleapis.com/token"

NoExpiry == [fmt |-> "none", t |-> 0]
DateTime(t) == [fmt |-> "datetime", t |-> t]

Has(obj, k) == k \in DOMAIN obj
Get(obj, k, default) == IF k \in DOMAIN obj THEN obj[k] ELSE default
Put(obj, k, v) == [x \in (DOMAIN obj) \cup {k} |-> IF x = k THEN v ELSE obj[x]]

----------------------------------------------------------------------------
(* The token endpoint (environment).  A success body carries access_token, *)
(* expires_in, scope and token_type, and a refresh_token only when Google  *)
(* chooses to issue one.                                                   *)

BodyNoRT(a) ==
    [access_token |-> a, expires_in |-> ExpiresIn, scope |-> "S",
     token_type |-> "Bearer"]
BodyRT(a, r) == Put(BodyNoRT(a), "refresh_token", r)
ErrorBody == [error |-> "invalid_grant"]
NotJson == [notjson |-> TRUE]

SuccessBodies ==
    {BodyNoRT(a) : a \in AccessTokens}
      \cup {BodyRT(a, r) : a \in AccessTokens, r \in RefreshTokens}

TokenResponses ==
    {[status |-> 200, body |-> b] : b \in SuccessBodies}
      \cup {[status |-> 400, body |-> ErrorBody]}
      \cup {[status |-> 302, body |-> NotJson]}

----------------------------------------------------------------------------
(* google.oauth2.credentials.Credentials, as the scripts use it *)

NoCreds ==
    [token |-> Null, refresh_token |-> Null, token_uri |-> Null,
     client_id |-> Null, client_secret |-> Null, scopes |-> Null,
     expiry |-> NoExpiry]

\* Credentials.expired: no expiry means never expired
expired(c, t) == c.expiry.fmt # "none" /\ t >= c.expiry.t

\* Credentials.valid
valid(c, t) == c.token # Null /\ ~expired(c, t)

\* Credentials.from_authorized_user_file(path, scopes) on an existing file:
\* the keys refresh_token, client_id, client_secret must be present
\* (ValueError otherwise); "expiry" must be a string to be parsed
\* (a float has no rstrip: AttributeError); without expiry the credentials
\* count as expired; the access token is read from the key "token".
from_authorized_user_file(info, t) ==
    IF ~({"refresh_token", "client_id", "client_secret"} \subseteq DOMAIN info)
    THEN [ok |-> FALSE, err |-> "ValueError", creds |-> NoCreds]
    ELSE IF Has(info, "expiry") /\ info.expiry.fmt = "epoch"
    THEN [ok |-> FALSE, err |-> "AttributeError", creds |-> NoCreds]
    ELSE [ok |-> TRUE, err |-> "none",
          creds |->
            [token |-> Get(info, "token", Null),
             refresh_token |-> info.refresh_token,
             token_uri |-> Get(info, "token_uri", TOKEN_ENDPOINT),
             client_id |-> info.client_id,
             client_secret |-> info.client_secret,
             scopes |-> "S",
             expiry |->
               IF Has(info, "expiry") /\ info.expiry.fmt \in {"iso", "isoZ"}
               THEN DateTime(info.expiry.t)
               ELSE DateTime(t)]]

\* Credentials.to_json(): the seven fields, None entries removed, expiry as
\* ISO string with a trailing Z
to_json(c) ==
    LET all == [token |-> c.token, refresh_token |-> c.refresh_token,
                token_uri |-> c.token_uri, client_id |-> c.client_id,
                client_secret |-> c.client_secret, scopes |-> c.scopes,
                expiry |-> IF c.expiry.fmt = "none" THEN Null
                           ELSE [fmt |-> "isoZ", t |-> c.expiry.t]]
        keep == {k \in DOMAIN all :
                    IF k = "expiry" THEN c.expiry.fmt # "none"
                    ELSE all[k] # Null}
    IN [k \in keep |-> all[k]]

\* Credentials.refresh(Request()): without refresh_token, token_uri,
\* client_id or client_secret it raises RefreshError before any request;
\* otherwise one POST to the token endpoint; a rejected request raises
\* RefreshError; an accepted one replaces token and expiry and keeps the old
\* refresh_token unless the response carries a new one.
refresh(c, resp, t) ==
    IF Null \in {c.refresh_token, c.token_uri, c.client_id, c.client_secret}
    THEN [ok |-> FALSE, calls |-> 0, creds |-> c]
    ELSE IF resp.status # 200
    THEN [ok |-> FALSE, calls |-> 1, creds |-> c]
    ELSE [ok |-> TRUE, calls |-> 1,
          creds |->
            [c EXCEPT !.token = resp.body.access_token,
                      !.refresh_token =
                          Get(resp.body, "refresh_token", c.refresh_token),
                      !.expiry = DateTime(t + resp.body.expires_in)]]

\* The credentials an authorization-code grant yields in google_auth_oauthlib
\* (flow.credentials after fetch_token / run_local_server)
flow_credentials(secrets, body, t) ==
    [token |-> body.access_token,
     refresh_token |-> Get(body, "refresh_token", Null),
     token_uri |-> TOKEN_ENDPOINT,
     client_id |-> secrets.client_id,
     client_secret |-> secrets.client_secret,
     scopes |-> "S",
     expiry |-> DateTime(t + body.expires_in)]

----------------------------------------------------------------------------
(* GmailReader.get_credentials (src/gmail_reader.py:55-82).  resp is the   *)
(* answer of the token endpoint to the one request the run may make (the   *)
(* refresh, or the code exchange inside InstalledAppFlow.run_local_server). *)
(* The result says how the run ended, what it returned, what token.json    *)
(* holds afterwards, and which calls it made.                              *)

GcResult(outcome, path, creds, file, wrote, calls, flow) ==
    [outcome |-> outcome, path |-> path, creds |-> creds, file |-> file,
     wrote |-> wrote, refreshCalls |-> calls, flowStarted |-> flow]

\* lines 70-80: the else branch (consent flow), then the save; path names
\* the way the run got here (no token.json, or a record that is not valid)
gc_flow(file, secrets, t, resp, path) ==
    IF secrets = NoFile
    THEN GcResult("FileNotFoundError", path, NoCreds, file, FALSE, 0, FALSE)
    ELSE IF resp.status # 200
    THEN GcResult("FlowError", path, NoCreds, file, FALSE, 0, TRUE)
    ELSE LET c == flow_credentials(secrets, resp.body, t)
         IN GcResult("ok", path, c, to_json(c), TRUE, 0, TRUE)

\* variant: the refreshed credentials are returned but never saved
gc_refresh_no_save(file, creds, t, resp) ==
    LET r == refresh(creds, resp, t)
    IN IF r.ok
       THEN GcResult("ok", "refresh", r.creds, file, FALSE, r.calls, FALSE)
       ELSE GcResult("RefreshError", "refresh", NoCreds, file, FALSE,
                     r.calls, FALSE)

\* lines 68-69, then the save of lines 77-80
gc_refresh(file, creds, t, resp) ==
    LET r == refresh(creds, resp, t)
    IN IF r.ok
       THEN GcResult("ok", "refresh", r.creds, to_json(r.creds), TRUE,
                     r.calls, FALSE)
       ELSE GcResult("RefreshError", "refresh", NoCreds, file, FALSE,
                     r.calls, FALSE)

\* variant: the save of lines 77-80 dedented out of the "if not valid" block
get_credentials_save_always(file, secrets, t, resp) ==
    IF file = NoFile
    THEN gc_flow(file, secrets, t, resp, "flow_no_file")
    ELSE LET ld == from_authorized_user_file(file, t)
         IN IF ~ld.ok
            THEN GcResult(ld.err, "load", NoCreds, file, FALSE, 0, FALSE)
            ELSE IF valid(ld.creds, t)
            THEN GcResult("ok", "valid", ld.creds, to_json(ld.creds), TRUE,
                          0, FALSE)
            ELSE IF expired(ld.creds, t) /\ ld.creds.refresh_token # Null
            THEN gc_refresh(file, ld.creds, t, resp)
            ELSE gc_flow(file, secrets, t, resp, "flow_not_valid")

\* variant: a rejected refresh is swallowed and the consent flow runs instead
get_credentials_refresh_then_flow(file, secrets, t, resp) ==
    IF file = NoFile
    THEN gc_flow(file, secrets, t, resp, "flow_no_file")
    ELSE LET ld == from_authorized_user_file(file, t)
         IN IF ~ld.ok
            THEN GcResult(ld.err, "load", NoCreds, file, FALSE, 0, FALSE)
            ELSE IF valid(ld.creds, t)
            THEN GcResult("ok", "valid", ld.creds, file, FALSE, 0, FALSE)
            ELSE IF expired(ld.creds, t) /\ ld.creds.refresh_token # Null
                    /\ refresh(ld.creds, resp, t).ok
            THEN gc_refresh(file, ld.creds, t, resp)
            ELSE gc_flow(file, secrets, t, resp, "flow_not_valid")

get_credentials(file, secrets, t, resp) ==
    IF file = NoFile
    THEN gc_flow(file, secrets, t, resp, "flow_no_file")
    ELSE LET ld == from_authorized_user_file(file, t)
         IN IF ~ld.ok
            THEN GcResult(ld.err, "load", NoCreds, file, FALSE, 0, FALSE)
            ELSE IF valid(ld.creds, t)
            THEN GcResult("ok", "valid", ld.creds, file, FALSE, 0, FALSE)
            ELSE IF expired(ld.creds, t) /\ ld.creds.refresh_token # Null
            THEN gc_refresh(file, ld.creds, t, resp)
            ELSE gc_flow(file, secrets, t, resp, "flow_not_valid")

----------------------------------------------------------------------------
(* The scripts that create token.json.  Each returns the exit code, the    *)
(* outcome, and the token.json content after the run.                      *)

ScriptResult(outcome, exit, file, wrote) ==
    [outcome |-> outcome, exit |-> exit, file |-> file, wrote |-> wrote]

\* variant: the status check of lines 41-44 is missing
exchange_code_no_status_check(file, secrets, resp) ==
    IF secrets = NoFile
    THEN ScriptResult("FileNotFoundError", 1, file, FALSE)
    ELSE ScriptResult("ok", 0,
                      Put(Put(resp.body, "client_id", secrets.client_id),
                          "client_secret", secrets.client_secret), TRUE)

\* src/exchange_code.py, module body, lines 26-55 (an authorization code
\* was given on the command line)
exchange_code(file, secrets, resp) ==
    IF secrets = NoFile
    THEN ScriptResult("FileNotFoundError", 1, file, FALSE)
    ELSE IF resp.status # 200
    THEN ScriptResult("TokenExchangeError", 1, file, FALSE)
    ELSE LET token_data ==
                 Put(Put(resp.body, "client_id", secrets.client_id),
                     "client_secret", secrets.client_secret)
         IN ScriptResult("ok", 0, token_data, TRUE)

\* requests.Response.raise_for_status
raise_for_status(status) == status >= 400 /\ status < 600

\* variant: lines 59-60 (client_id / client_secret) are missing
exchange_code_for_token_not_enriched(secrets, resp, t) ==
    IF secrets = NoFile
    THEN [ok |-> FALSE, err |-> "FileNotFoundError", token_data |-> ErrorBody]
    ELSE IF raise_for_status(resp.status)
    THEN [ok |-> FALSE, err |-> "HTTPError", token_data |-> ErrorBody]
    ELSE IF resp.body = NotJson
    THEN [ok |-> FALSE, err |-> "JSONDecodeError", token_data |-> ErrorBody]
    ELSE LET d1 == Put(resp.body, "token_uri", TOKEN_ENDPOINT)
             d4 == Put(d1, "scopes", Get(resp.body, "scope", ""))
             d5 == Put(d4, "expiry",
                       [fmt |-> "epoch",
                        t |-> t + Get(resp.body, "expires_in", ExpiresIn)])
             d6 == Put(d5, "generated_at", [fmt |-> "isoZ", t |-> t])
         IN [ok |-> TRUE, err |-> "none", token_data |-> d6]

\* src/oauth/exchange_code.py, exchange_code_for_token, lines 29-65
exchange_code_for_token(secrets, resp, t) ==
    IF secrets = NoFile
    THEN [ok |-> FALSE, err |-> "FileNotFoundError", token_data |-> ErrorBody]
    ELSE IF raise_for_status(resp.status)
    THEN [ok |-> FALSE, err |-> "HTTPError", token_data |-> ErrorBody]
    ELSE IF resp.body = NotJson
    THEN [ok |-> FALSE, err |-> "JSONDecodeError", token_data |-> ErrorBody]
    ELSE LET d1 == Put(resp.body, "token_uri", TOKEN_ENDPOINT)
             d2 == Put(d1, "client_id", secrets.client_id)
             d3 == Put(d2, "client_secret", secrets.client_secret)
             d4 == Put(d3, "scopes", Get(resp.body, "scope", ""))
             d5 == Put(d4, "expiry",
                       [fmt |-> "epoch",
                        t |-> t + Get(resp.body, "expires_in", ExpiresIn)])
             d6 == Put(d5, "generated_at", [fmt |-> "isoZ", t |-> t])
         IN [ok |-> TRUE, err |-> "none", token_data |-> d6]

\* src/oauth/exchange_code.py, save_token, lines 68-74
save_token(token_data) == token_data

\* src/oauth/exchange_code.py, main, lines 92-147: the prints of lines
\* 101-104 index access_token, refresh_token and expires_in before the
\* token is saved, so a response without one of them ends the run in an
\* uncaught KeyError
oauth_exchange_main(file, secrets, resp, t) ==
    LET r == exchange_code_for_token(secrets, resp, t)
    IN IF ~r.ok
       THEN ScriptResult(IF r.err = "HTTPError" THEN "TokenExchangeError"
                         ELSE r.err, 1, file, FALSE)
       ELSE IF ~({"access_token", "refresh_token", "expires_in"}
                    \subseteq DOMAIN r.token_data)
       THEN ScriptResult("KeyError", 1, file, FALSE)
       ELSE ScriptResult("ok", 0, save_token(r.token_data), TRUE)

\* src/manual_oauth.py, main, lines 28-120, called with a code
manual_oauth_main(file, secrets, resp, t) ==
    IF secrets = NoFile
    THEN ScriptResult("FileNotFoundError", 1, file, FALSE)
    ELSE IF resp.status # 200
    THEN ScriptResult("TokenExchangeError", 1, file, FALSE)
    ELSE LET credentials == flow_credentials(secrets, resp.body, t)
             token_data ==
                 [token |-> credentials.token,
                  refresh_token |-> credentials.refresh_token,
                  token_uri |-> credentials.token_uri,
                  client_id |-> credentials.client_id,
                  client_secret |-> credentials.client_secret,
                  scopes |-> credentials.scopes,
                  expiry |-> IF credentials.expiry.fmt = "none" THEN NoExpiry
                             ELSE [fmt |-> "iso", t |-> credentials.expiry.t]]
         IN ScriptResult("ok", 0, token_data, TRUE)

\* src/setup.py, main, lines 17-48
setup_main(file, secrets, resp, t) ==
    IF secrets = NoFile
    THEN ScriptResult("ConfigNotFound", 0, file, FALSE)
    ELSE IF resp.status # 200
    THEN ScriptResult("FlowError", 1, file, FALSE)
    ELSE LET creds == flow_credentials(secrets, resp.body, t)
         IN ScriptResult("ok", 0, to_json(creds), TRUE)

----------------------------------------------------------------------------
(* The credential state machine: the clock advances, the user replaces or  *)
(* removes client_secrets.json, and the scripts run one at a time, each as *)
(* one step.  lastRun.seq flips with every script run, so a step is a run  *)
(* exactly when it changes lastRun.seq.                                    *)

Run(seq, script, outcome, exit, path, resp, secrets, creds, calls, flow) ==
    [seq |-> seq, script |-> script, outcome |-> outcome, exit |-> exit,
     path |-> path, resp |-> resp,
     client_id |-> IF secrets = NoFile THEN Null ELSE secrets.client_id,
     client_secret |-> IF secrets = NoFile THEN Null
                       ELSE secrets.client_secret,
     creds |-> creds, refreshCalls |-> calls, flowStarted |-> flow]

NoResponse == [status |-> 0, body |-> NotJson]

NoRun == Run(0, "none", "none", 0, "none", NoResponse, NoFile, NoCreds, 0, FALSE)

\* the parts of the state a specification does not exercise stay at rest
CredIdle ==
    /\ now = 0
    /\ clientSecrets = NoFile
    /\ tokenFile = NoFile
    /\ lastRun = NoRun

UrlIdle ==
    /\ urlIn = [client_id |-> <<>>, redirect_uri |-> <<>>, scopes |-> <<>>]
    /\ urlBy = "none"
    /\ urlOut = <<>>

NoChanges == [new |-> <<>>, modified |-> <<>>, deleted |-> <<>>]

MailIdle ==
    /\ email = [subject |-> <<>>, sender |-> <<>>]
    /\ priority = "none"

ReaderIdle ==
    /\ service = "None"
    /\ methodCalls = 0
    /\ gcCalls = 0
    /\ gcFailed = 0
    /\ fileReads = 0
    /\ lastCall = [method |-> "none", outcome |-> "none"]

DriveIdle ==
    /\ driveFolders = <<>>
    /\ driveFiles = <<>>
    /\ indexFile = NoFile
    /\ pc = "idle"
    /\ folders = <<>>
    /\ files = <<>>
    /\ idx = 0
    /\ path_parts = <<>>
    /\ parent_ids = <<>>
    /\ changes = NoChanges

CredInit ==
    /\ now = 0
    /\ clientSecrets \in ClientSecretsFiles \cup {NoFile}
    /\ tokenFile = NoFile
    /\ lastRun = NoRun
    /\ UrlIdle
    /\ DriveIdle
    /\ MailIdle
    /\ ReaderIdle

Tick ==
    /\ now < MaxTime
    /\ now' = now + 1
    /\ UNCHANGED <<clientSecrets, tokenFile, lastRun, urlVars, driveVars,
                   mailVars, readerVars>>

ReplaceClientSecrets ==
    /\ \E f \in (ClientSecretsFiles \cup {NoFile}) \ {clientSecrets} :
          clientSecrets' = f
    /\ UNCHANGED <<now, tokenFile, lastRun, urlVars, driveVars,
                   mailVars, readerVars>>

ScriptRun(script, r, resp) ==
    /\ tokenFile' = r.file
    /\ lastRun' = Run(1 - lastRun.seq, script, r.outcome, r.exit, "script",
                      resp, clientSecrets, NoCreds, 0, FALSE)
    /\ UNCHANGED <<now, clientSecrets, urlVars, driveVars,
                   mailVars, readerVars>>

ExchangeCodeRun ==
    \E resp \in TokenResponses :
        ScriptRun("exchange_code",
                  exchange_code(tokenFile, clientSecrets, resp), resp)

OauthExchangeCodeRun ==
    \E resp \in TokenResponses :
        ScriptRun("oauth/exchange_code",
                  oauth_exchange_main(tokenFile, clientSecrets, resp, now),
                  resp)

ManualOauthRun ==
    \E resp \in TokenResponses :
        ScriptRun("manual_oauth",
                  manual_oauth_main(tokenFile, clientSecrets, resp, now), resp)

SetupRun ==
    \E resp \in TokenResponses :
        ScriptRun("setup",
                  setup_main(tokenFile, clientSecrets, resp, now), resp)

\* a GmailReader run up to the end of get_credentials; an exception leaves
\* the interpreter with exit code 1
GetCredentialsRun ==
    \E resp \in TokenResponses :
        LET r == get_credentials(tokenFile, clientSecrets, now, resp)
        IN /\ tokenFile' = r.file
           /\ lastRun' = Run(1 - lastRun.seq, "gmail_reader", r.outcome,
                             IF r.outcome = "ok" THEN 0 ELSE 1, r.path, resp,
                             clientSecrets, r.creds, r.refreshCalls,
                             r.flowStarted)
           /\ UNCHANGED <<now, clientSecrets, urlVars, driveVars,
                   mailVars, readerVars>>

CredNext ==
    \/ Tick
    \/ ReplaceClientSecrets
    \/ ExchangeCodeRun
    \/ OauthExchangeCodeRun
    \/ ManualOauthRun
    \/ SetupRun
    \/ GetCredentialsRun

Spec == CredInit /\ [][CredNext]_vars

IsRun(script) == lastRun'.seq # lastRun.seq /\ lastRun'.script = script

TypeOK ==
    /\ now \in 0..MaxTime
    /\ clientSecrets \in ClientSecretsFiles \cup {NoFile}
    /\ lastRun.seq \in {0, 1}

----------------------------------------------------------------------------
(* Properties of the credential lifecycle *)

\* what the Credential Store loads from the token.json of the current state
Loaded == from_authorized_user_file(tokenFile, now)
LoadedOk == tokenFile # NoFile /\ Loaded.ok
LoadedValid == LoadedOk /\ valid(Loaded.creds, now)
LoadedExpiredWithRT ==
    LoadedOk /\ ~valid(Loaded.creds, now) /\ expired(Loaded.creds, now)
        /\ Loaded.creds.refresh_token # Null
LoadedInvalidNoRT ==
    LoadedOk /\ ~valid(Loaded.creds, now) /\ Loaded.creds.refresh_token = Null

HoldsRefreshToken(f) ==
    f # NoFile /\ Has(f, "refresh_token") /\ f.refresh_token # Null

\* C1: a get_credentials run that loads a valid, unexpired record returns
\* exactly that record, makes no refresh call, starts no authorization flow
\* and leaves token.json as it was.
C1_ValidRecordReturnedUnchanged ==
    [][ (IsRun("gmail_reader") /\ LoadedValid)
          => /\ lastRun'.outcome = "ok"
             /\ lastRun'.creds = Loaded.creds
             /\ lastRun'.refreshCalls = 0
             /\ ~lastRun'.flowStarted
             /\ tokenFile' = tokenFile ]_vars

C1_Witness ==
    /\ lastRun.script = "gmail_reader"
    /\ lastRun.path = "valid"
    /\ lastRun.creds.token \in AccessTokens
    /\ tokenFile # NoFile

\* C2 as stated: every get_credentials run that loads an expired record with
\* a refresh token makes exactly one refresh call and then overwrites
\* token.json with the updated record, which still carries a refresh_token.
C2_Original ==
    [][ (IsRun("gmail_reader") /\ LoadedExpiredWithRT)
          => /\ lastRun'.refreshCalls = 1
             /\ lastRun'.outcome = "ok"
             /\ tokenFile' = to_json(lastRun'.creds)
             /\ HoldsRefreshToken(tokenFile') ]_vars

\* C2 amended: such a run makes exactly one refresh call; when the token
\* endpoint accepts it, token.json is overwritten with the updated record
\* (new access token and expiry), whose refresh_token is the one of the
\* response or, when the response omits it, the one loaded; when the
\* endpoint rejects it, the run ends in RefreshError and token.json is not
\* written.
C2_RefreshOncePersistKeepRT ==
    [][ (IsRun("gmail_reader") /\ LoadedExpiredWithRT)
          => /\ lastRun'.refreshCalls = 1
             /\ ~lastRun'.flowStarted
             /\ lastRun'.resp.status = 200 =>
                  /\ lastRun'.outcome = "ok"
                  /\ tokenFile' = to_json(lastRun'.creds)
                  /\ tokenFile'.token = lastRun'.resp.body.access_token
                  /\ tokenFile'.expiry.t = now + ExpiresIn
                  /\ HoldsRefreshToken(tokenFile')
                  /\ tokenFile'.refresh_token =
                        Get(lastRun'.resp.body, "refresh_token",
                            Loaded.creds.refresh_token)
                  /\ from_authorized_user_file(tokenFile', now).creds
                        = lastRun'.creds
             /\ lastRun'.resp.status # 200 =>
                  /\ lastRun'.outcome = "RefreshError"
                  /\ tokenFile' = tokenFile ]_vars

\* the refresh response omitted refresh_token and the saved record has one
C2_Witness ==
    /\ lastRun.script = "gmail_reader"
    /\ lastRun.path = "refresh"
    /\ lastRun.outcome = "ok"
    /\ ~Has(lastRun.resp.body, "refresh_token")
    /\ HoldsRefreshToken(tokenFile)
    /\ tokenFile = to_json(lastRun.creds)

\* C3 as stated: once token.json holds a refresh_token, every later state of
\* token.json holds one.
C3_RefreshTokenNeverLost ==
    [][ HoldsRefreshToken(tokenFile) => HoldsRefreshToken(tokenFile') ]_vars

IsExchangeRun == IsRun("exchange_code") \/ IsRun("oauth/exchange_code")

\* a step in which some entry point wrote token.json after a successful
\* exchange, consent flow or refresh
IsSuccessfulWrite ==
    /\ lastRun'.seq # lastRun.seq
    /\ lastRun'.outcome = "ok"
    /\ lastRun'.resp.status = 200
    /\ lastRun'.path \in {"script", "refresh", "flow_no_file", "flow_not_valid"}

\* C5 as stated: the token.json left by any entry point loads in the
\* Credential Store, the loaded record carries the access token, refresh
\* token, client id / secret and expiry that were written, and a
\* get_credentials run right afterwards uses or refreshes that record
\* (it neither fails nor runs the consent flow).
C5_WrittenFileLoadsBack ==
    [][ IsSuccessfulWrite
          => LET ld == from_authorized_user_file(tokenFile', now)
                 body == lastRun'.resp.body
             IN /\ tokenFile' # NoFile
                /\ ld.ok
                /\ ld.creds.token = body.access_token
                /\ Has(body, "refresh_token")
                      => ld.creds.refresh_token = body.refresh_token
                /\ ld.creds.client_id = clientSecrets.client_id
                /\ ld.creds.client_secret = clientSecrets.client_secret
                /\ ld.creds.expiry = DateTime(now + body.expires_in)
                /\ \A resp \in TokenResponses :
                      get_credentials(tokenFile', clientSecrets, now, resp).path
                          \in {"valid", "refresh"} ]_vars

\* C6: when the token endpoint answers a code exchange with a non-2xx
\* status, the exchange script exits non-zero and token.json is exactly what
\* it was before the run.
C6_FailedExchangeLeavesTokenFile ==
    [][ (IsExchangeRun /\ clientSecrets # NoFile
           /\ ~(lastRun'.resp.status \in 200..299))
          => /\ lastRun'.exit # 0
             /\ lastRun'.outcome # "ok"
             /\ tokenFile' = tokenFile ]_vars

\* a rejected exchange ran while token.json held a record
C6_Witness ==
    /\ lastRun.script \in {"exchange_code", "oauth/exchange_code"}
    /\ lastRun.resp.status = 400
    /\ lastRun.outcome = "TokenExchangeError"
    /\ lastRun.client_id # Null
    /\ tokenFile # NoFile

\* C7: every token.json written by an exchange script contains client_id
\* and client_secret, with the values of client_secrets.json that the
\* exchange request carried; the exchange scripts change token.json only on
\* a successful exchange.
C7_ExchangedTokenEnriched ==
    [][ IsExchangeRun
          => /\ (lastRun'.outcome = "ok" \/ tokenFile' # tokenFile)
                  => /\ lastRun'.outcome = "ok"
                     /\ clientSecrets # NoFile
                     /\ Has(tokenFile', "client_id")
                     /\ Has(tokenFile', "client_secret")
                     /\ tokenFile'.client_id = clientSecrets.client_id
                     /\ tokenFile'.client_secret = clientSecrets.client_secret
                     /\ tokenFile'.client_id = lastRun'.client_id
                     /\ tokenFile'.access_token
                           = lastRun'.resp.body.access_token ]_vars

\* an exchange succeeded after client_secrets.json had been replaced: the
\* record carries the client of the request, not the one of an earlier run
C7_Witness ==
    /\ lastRun.script = "oauth/exchange_code"
    /\ lastRun.outcome = "ok"
    /\ tokenFile # NoFile
    /\ tokenFile.client_id = "X2"
    /\ tokenFile.client_secret = "Y2"
    /\ clientSecrets # NoFile
    /\ clientSecrets.client_id = "X2"

----------------------------------------------------------------------------
(* The authorization-URL builders.  Strings are sequences of one-character *)
(* strings, so that joining, URL-encoding and parsing are computed.        *)

MaxScopes == 2      \* longest scope list tried, besides the scripts' own list

\* src/generate_oauth_url.py:25, src/oauth/generate_oauth_url.py:23
REDIRECT_URI ==
    <<"h", "t", "t", "p", "s", ":", "/", "/", "d", "e", "v", "e", "l",
      "o", "p", "e", "r", "s", ".", "g", "o", "o", "g", "l", "e", ".",
      "c", "o", "m", "/", "o", "a", "u", "t", "h", "p", "l", "a", "y",
      "g", "r", "o", "u", "n", "d">>

GMAIL_READONLY ==
    <<"h", "t", "t", "p", "s", ":", "/", "/", "w", "w", "w", ".", "g",
      "o", "o", "g", "l", "e", "a", "p", "i", "s", ".", "c", "o", "m",
      "/", "a", "u", "t", "h", "/", "g", "m", "a", "i", "l", ".", "r",
      "e", "a", "d", "o", "n", "l", "y">>
GMAIL_SEND ==
    <<"h", "t", "t", "p", "s", ":", "/", "/", "w", "w", "w", ".", "g",
      "o", "o", "g", "l", "e", "a", "p", "i", "s", ".", "c", "o", "m",
      "/", "a", "u", "t", "h", "/", "g", "m", "a", "i", "l", ".", "s",
      "e", "n", "d">>
CALENDAR_READONLY ==
    <<"h", "t", "t", "p", "s", ":", "/", "/", "w", "w", "w", ".", "g",
      "o", "o", "g", "l", "e", "a", "p", "i", "s", ".", "c", "o", "m",
      "/", "a", "u", "t", "h", "/", "c", "a", "l", "e", "n", "d", "a",
      "r", ".", "r", "e", "a", "d", "o", "n", "l", "y">>
DRIVE_READONLY ==
    <<"h", "t", "t", "p", "s", ":", "/", "/", "w", "w", "w", ".", "g",
      "o", "o", "g", "l", "e", "a", "p", "i", "s", ".", "c", "o", "m",
      "/", "a", "u", "t", "h", "/", "d", "r", "i", "v", "e", ".", "r",
      "e", "a", "d", "o", "n", "l", "y">>
SPREADSHEETS_READONLY ==
    <<"h", "t", "t", "p", "s", ":", "/", "/", "w", "w", "w", ".", "g",
      "o", "o", "g", "l", "e", "a", "p", "i", "s", ".", "c", "o", "m",
      "/", "a", "u", "t", "h", "/", "s", "p", "r", "e", "a", "d", "s",
      "h", "e", "e", "t", "s", ".", "r", "e", "a", "d", "o", "n", "l",
      "y">>

\* src/generate_oauth_url.py:27-33, src/oauth/generate_oauth_url.py:26-32
SCOPES ==
    <<GMAIL_READONLY, GMAIL_SEND, CALENDAR_READONLY, DRIVE_READONLY,
      SPREADSHEETS_READONLY>>

\* src/generate_oauth_url.py:38
BASE_URL_V2 ==
    <<"h", "t", "t", "p", "s", ":", "/", "/", "a", "c", "c", "o", "u",
      "n", "t", "s", ".", "g", "o", "o", "g", "l", "e", ".", "c", "o",
      "m", "/", "o", "/", "o", "a", "u", "t", "h", "2", "/", "v", "2",
      "/", "a", "u", "t", "h">>
\* src/oauth/generate_oauth_url.py:55
BASE_URL ==
    <<"h", "t", "t", "p", "s", ":", "/", "/", "a", "c", "c", "o", "u",
      "n", "t", "s", ".", "g", "o", "o", "g", "l", "e", ".", "c", "o",
      "m", "/", "o", "/", "o", "a", "u", "t", "h", "2", "/", "a", "u",
      "t", "h">>

K_client_id == <<"c", "l", "i", "e", "n", "t", "_", "i", "d">>
K_redirect_uri ==
    <<"r", "e", "d", "i", "r", "e", "c", "t", "_", "u", "r", "i">>
K_response_type ==
    <<"r", "e", "s", "p", "o", "n", "s", "e", "_", "t", "y", "p", "e">>
K_scope == <<"s", "c", "o", "p", "e">>
K_access_type ==
    <<"a", "c", "c", "e", "s", "s", "_", "t", "y", "p", "e">>
K_prompt == <<"p", "r", "o", "m", "p", "t">>
V_code == <<"c", "o", "d", "e">>
V_offline == <<"o", "f", "f", "l", "i", "n", "e">>
V_consent == <<"c", "o", "n", "s", "e", "n", "t">>

\* sep.join(parts)
RECURSIVE join(_, _)
join(sep, parts) ==
    IF Len(parts) = 0 THEN <<>>
    ELSE IF Len(parts) = 1 THEN parts[1]
    ELSE parts[1] \o sep \o join(sep, Tail(parts))

\* urllib.parse.quote_plus on one character: letters, digits and "_.-~"
\* stay, a space becomes "+", anything else is percent-encoded
quote_char(c) ==
    CASE c = " " -> <<"+">>
      [] c = ":" -> <<"%", "3", "A">>
      [] c = "/" -> <<"%", "2", "F">>
      [] c = "+" -> <<"%", "2", "B">>
      [] c = "&" -> <<"%", "2", "6">>
      [] c = "=" -> <<"%", "3", "D">>
      [] c = "?" -> <<"%", "3", "F">>
      [] c = "%" -> <<"%", "2", "5">>
      [] OTHER -> <<c>>

\* urllib.parse.quote_plus: the encodings of the characters, concatenated
\* (computed by halves to keep the evaluation shallow)
RECURSIVE quote_plus(_)
quote_plus(str) ==
    IF Len(str) = 0 THEN <<>>
    ELSE IF Len(str) = 1 THEN quote_char(str[1])
    ELSE LET h == Len(str) \div 2
         IN quote_plus(SubSeq(str, 1, h))
              \o quote_plus(SubSeq(str, h + 1, Len(str)))

\* urllib.parse.urlencode(params) for a dict given as a sequence of
\* <<key, value>> in insertion order
urlencode(params) ==
    join(<<"&">>, [i \in 1..Len(params) |->
                     quote_plus(params[i][1]) \o <<"=">>
                       \o quote_plus(params[i][2])])

\* variant: the 'prompt': 'consent' entry of line 50 is missing
generate_auth_url_no_prompt(client_id, redirect_uri, scopes) ==
    BASE_URL \o <<"?">> \o
      urlencode(<< <<K_client_id, client_id>>,
                   <<K_redirect_uri, redirect_uri>>,
                   <<K_response_type, V_code>>,
                   <<K_access_type, V_offline>>,
                   <<K_scope, join(<<" ">>, scopes)>> >>)

\* src/oauth/generate_oauth_url.py, generate_auth_url, lines 35-58
generate_auth_url(client_id, redirect_uri, scopes) ==
    BASE_URL \o <<"?">> \o
      urlencode(<< <<K_client_id, client_id>>,
                   <<K_redirect_uri, redirect_uri>>,
                   <<K_response_type, V_code>>,
                   <<K_access_type, V_offline>>,
                   <<K_prompt, V_consent>>,
                   <<K_scope, join(<<" ">>, scopes)>> >>)

\* src/generate_oauth_url.py, module body, lines 24-45: an f-string, nothing
\* is URL-encoded
generate_oauth_url(client_id, redirect_uri, scopes) ==
    LET scope_str == join(<<"+">>, scopes)
    IN BASE_URL_V2 \o <<"?">>
         \o K_client_id \o <<"=">> \o client_id \o <<"&">>
         \o K_redirect_uri \o <<"=">> \o redirect_uri \o <<"&">>
         \o K_response_type \o <<"=">> \o V_code \o <<"&">>
         \o K_scope \o <<"=">> \o scope_str \o <<"&">>
         \o K_access_type \o <<"=">> \o V_offline \o <<"&">>
         \o K_prompt \o <<"=">> \o V_consent

----------------------------------------------------------------------------
(* The URL builders as a state machine: the inputs are drawn once, then    *)
(* either script may be run, any number of times.                          *)

ClientIds ==
    { <<"X">>,
      <<"1", "2", "-", "a", "b", ".", "a", "p", "p", "s">> }

RedirectUris ==
    { REDIRECT_URI,
      <<"h", "t", "t", "p", ":", "/", "/", "l", "o", "c", "a", "l", "h",
        "o", "s", "t">> }

ScopeNames ==
    {GMAIL_READONLY, GMAIL_SEND, CALENDAR_READONLY, DRIVE_READONLY,
     SPREADSHEETS_READONLY}

ScopeLists ==
    {SCOPES} \cup UNION {[1..n -> ScopeNames] : n \in 0..MaxScopes}

UrlInit ==
    /\ urlIn \in [client_id : ClientIds, redirect_uri : RedirectUris,
                  scopes : ScopeLists]
    /\ urlBy = "none"
    /\ urlOut = <<>>
    /\ CredIdle
    /\ DriveIdle
    /\ MailIdle
    /\ ReaderIdle

GenerateOauthUrlRun ==
    /\ urlOut' = generate_oauth_url(urlIn.client_id, urlIn.redirect_uri,
                                    urlIn.scopes)
    /\ urlBy' = "generate_oauth_url"
    /\ UNCHANGED <<urlIn, credVars, driveVars,
                   mailVars, readerVars>>

OauthGenerateAuthUrlRun ==
    /\ urlOut' = generate_auth_url(urlIn.client_id, urlIn.redirect_uri,
                                   urlIn.scopes)
    /\ urlBy' = "oauth/generate_oauth_url"
    /\ UNCHANGED <<urlIn, credVars, driveVars,
                   mailVars, readerVars>>

UrlNext == GenerateOauthUrlRun \/ OauthGenerateAuthUrlRun

SpecUrl == UrlInit /\ [][UrlNext]_vars

----------------------------------------------------------------------------
(* How the authorization server reads a URL: split at the first "?", split *)
(* the query at every "&", split each pair at its first "=", and decode    *)
(* "+" and percent escapes in names and values.                            *)

Positions(str, c) == {i \in 1..Len(str) : str[i] = c}
Min(S) == CHOOSE x \in S : \A y \in S : x <= y
Kth(S, k) == CHOOSE x \in S : Cardinality({y \in S : y < x}) = k - 1

unquote_escape(a, b) ==
    CASE <<a, b>> = <<"3", "A">> -> ":"
      [] <<a, b>> = <<"2", "F">> -> "/"
      [] <<a, b>> = <<"2", "B">> -> "+"
      [] <<a, b>> = <<"2", "6">> -> "&"
      [] <<a, b>> = <<"3", "D">> -> "="
      [] <<a, b>> = <<"3", "F">> -> "?"
      [] <<a, b>> = <<"2", "5">> -> "%"
      [] OTHER -> "?"

unquote_plus(str) ==
    LET inEscape(i) == (i > 1 /\ str[i - 1] = "%")
                         \/ (i > 2 /\ str[i - 2] = "%")
        starts == {i \in 1..Len(str) : ~inEscape(i)}
        at(i) == IF str[i] = "%" /\ i + 2 <= Len(str)
                 THEN unquote_escape(str[i + 1], str[i + 2])
                 ELSE IF str[i] = "+" THEN " " ELSE str[i]
    IN [k \in 1..Cardinality(starts) |-> at(Kth(starts, k))]

ParsePair(pair) ==
    IF Positions(pair, "=") = {}
    THEN [name |-> unquote_plus(pair), value |-> <<>>]
    ELSE LET e == Min(Positions(pair, "="))
         IN [name |-> unquote_plus(SubSeq(pair, 1, e - 1)),
             value |-> unquote_plus(SubSeq(pair, e + 1, Len(pair)))]

ParseQuery(query) ==
    LET cuts == {0} \cup Positions(query, "&") \cup {Len(query) + 1}
    IN [k \in 1..(Cardinality(cuts) - 1) |->
          ParsePair(SubSeq(query, Kth(cuts, k) + 1, Kth(cuts, k + 1) - 1))]

ParseUrl(url) ==
    IF Positions(url, "?") = {}
    THEN [base |-> url, params |-> <<>>]
    ELSE LET q == Min(Positions(url, "?"))
         IN [base |-> SubSeq(url, 1, q - 1),
             params |-> ParseQuery(SubSeq(url, q + 1, Len(url)))]

ParamNames(p) == {p.params[i].name : i \in 1..Len(p.params)}
ParamValues(p, name) ==
    {p.params[i].value : i \in {j \in 1..Len(p.params) : p.params[j].name = name}}

AuthUrlWellFormed ==
    urlBy # "none" =>
      LET p == ParseUrl(urlOut)
      IN /\ p.base = IF urlBy = "generate_oauth_url" THEN BASE_URL_V2
                     ELSE BASE_URL
         /\ Len(p.params) = 6
         /\ ParamNames(p) = {K_client_id, K_redirect_uri, K_response_type,
                             K_scope, K_access_type, K_prompt}
         /\ ParamValues(p, K_client_id) = {urlIn.client_id}
         /\ ParamValues(p, K_redirect_uri) = {urlIn.redirect_uri}
         /\ ParamValues(p, K_response_type) = {V_code}
         /\ ParamValues(p, K_scope) = {join(<<" ">>, urlIn.scopes)}
         /\ ParamValues(p, K_access_type) = {V_offline}
         /\ ParamValues(p, K_prompt) = {V_consent}
         /\ V_code \notin ParamNames(p)

\* C8: the URL either builder prints is its fixed base endpoint followed by
\* exactly the six parameters client_id, redirect_uri, response_type=code,
\* scope (the requested scopes in order, separated by a space once decoded),
\* access_type=offline and prompt=consent, with no parameter named code;
\* running the same builder again on the same inputs prints the same URL.
C8_AuthUrlParameters ==
    /\ []AuthUrlWellFormed
    /\ [][ (urlBy # "none" /\ urlBy' = urlBy) => urlOut' = urlOut ]_vars

\* the builder of oauth/ ran on the scripts' five scopes
C8_Witness ==
    /\ urlBy = "oauth/generate_oauth_url"
    /\ urlIn.scopes = SCOPES
    /\ Len(urlOut) > Len(BASE_URL)
    /\ Len(ParseUrl(urlOut).params) = 6

----------------------------------------------------------------------------
(* The Drive indexer (src/drive_indexer.py).  A Python dict whose order    *)
(* matters (files, the index) is a sequence of [id, data] entries with     *)
(* distinct ids, in insertion order; the folders dict is only looked up    *)
(* and is a function from folder id to [name, parents].  Names and paths   *)
(* are strings; modifiedTime is a sequence of characters, compared as      *)
(* Python compares strings.                                                *)

MaxWalk == 3        \* the walk is cut when path_parts reaches this length

FOLDER_MIME == "application/vnd.google-apps.folder"
FILE_MIME == "text/plain"

T_DAY1_MORNING ==
    <<"2", "0", "2", "4", "-", "0", "1", "-", "0", "1", "T", "0", "8",
      ":", "0", "0", ":", "0", "0", ".", "0", "0", "0", "Z">>
T_DAY1_EVENING ==
    <<"2", "0", "2", "4", "-", "0", "1", "-", "0", "1", "T", "2", "0",
      ":", "0", "0", ":", "0", "0", ".", "0", "0", "0", "Z">>
T_DAY2 ==
    <<"2", "0", "2", "4", "-", "0", "1", "-", "0", "2", "T", "0", "8",
      ":", "0", "0", ":", "0", "0", ".", "0", "0", "0", "Z">>

\* dict helpers
Keys(d) == {d[i].id : i \in 1..Len(d)}
Lookup(d, id) == d[CHOOSE i \in 1..Len(d) : d[i].id = id].data
\* d[id] = data: an existing key keeps its place, a new key goes last
DictSet(d, id, data) ==
    IF id \in Keys(d)
    THEN [i \in 1..Len(d) |-> IF d[i].id = id THEN [id |-> id, data |-> data]
                              ELSE d[i]]
    ELSE Append(d, [id |-> id, data |-> data])

\* code point of the characters that occur in a modifiedTime
Ord(c) ==
    CASE c = "-" -> 45 [] c = "." -> 46
      [] c = "0" -> 48 [] c = "1" -> 49 [] c = "2" -> 50 [] c = "3" -> 51
      [] c = "4" -> 52 [] c = "5" -> 53 [] c = "6" -> 54 [] c = "7" -> 55
      [] c = "8" -> 56 [] c = "9" -> 57 [] c = ":" -> 58
      [] c = "T" -> 84 [] c = "Z" -> 90

\* a > b on Python strings: at the first position where they differ the
\* character of a is the greater one, or b is a proper prefix of a
StrGreater(a, b) ==
    \E i \in 1..Len(a) :
        /\ \A j \in 1..(i - 1) : j <= Len(b) /\ a[j] = b[j]
        /\ i > Len(b) \/ Ord(a[i]) > Ord(b[i])

\* s[:n]
Prefix(s, n) == SubSeq(s, 1, IF Len(s) < n THEN Len(s) ELSE n)

\* '/'.join(parts), parts not empty
RECURSIVE JoinPath(_)
JoinPath(parts) ==
    IF Len(parts) = 1 THEN parts[1]
    ELSE parts[1] \o "/" \o JoinPath(Tail(parts))

\* lines 34-35: the folders dict built from the folder listing
folders_dict(listing) ==
    [id \in {listing[i].id : i \in 1..Len(listing)} |->
       LET f == listing[CHOOSE i \in 1..Len(listing) :
                          /\ listing[i].id = id
                          /\ \A j \in (i + 1)..Len(listing) : listing[j].id # id]
       IN [name |-> f.name, parents |-> f.parents]]

\* lines 59-66: the record of file f once its ancestors are in parts
file_record(f, parts) ==
    [name |-> f.name,
     path |-> IF parts # <<>> THEN JoinPath(parts \o <<f.name>>) ELSE f.name,
     mimeType |-> f.mimeType,
     modifiedTime |-> Prefix(f.modifiedTime, 10)]

\* variant: the index file is never found
load_previous_index_not_found(index) == <<>>

\* load_previous_index, lines 70-75, followed by previous.get('files', {})
load_previous_index(index) == IF index = NoFile THEN <<>> ELSE index.files

\* save_index, lines 77-84
save_index(current, t) == [updated |-> t, files |-> current]

\* the for loop of lines 95-99 from entry i on; acc holds the two lists
RECURSIVE scan_current(_, _, _, _)
scan_current(current_files, prev_files, i, acc) ==
    IF i > Len(current_files) THEN acc
    ELSE LET e == current_files[i]
         IN IF e.id \notin Keys(prev_files)
            THEN scan_current(current_files, prev_files, i + 1,
                              [acc EXCEPT !.new = Append(@, e)])
            ELSE IF StrGreater(e.data.modifiedTime,
                               Lookup(prev_files, e.id).modifiedTime)
            THEN scan_current(current_files, prev_files, i + 1,
                              [acc EXCEPT !.modified = Append(@, e)])
            ELSE scan_current(current_files, prev_files, i + 1, acc)

\* variant: the comparison of line 98 is >= instead of >
RECURSIVE scan_current_ge(_, _, _, _)
scan_current_ge(current_files, prev_files, i, acc) ==
    IF i > Len(current_files) THEN acc
    ELSE LET e == current_files[i]
             old == Lookup(prev_files, e.id).modifiedTime
         IN IF e.id \notin Keys(prev_files)
            THEN scan_current_ge(current_files, prev_files, i + 1,
                                 [acc EXCEPT !.new = Append(@, e)])
            ELSE IF e.data.modifiedTime = old
                    \/ StrGreater(e.data.modifiedTime, old)
            THEN scan_current_ge(current_files, prev_files, i + 1,
                                 [acc EXCEPT !.modified = Append(@, e)])
            ELSE scan_current_ge(current_files, prev_files, i + 1, acc)

detect_changes_ge(current_files, index) ==
    LET prev_files == load_previous_index(index)
        notCurrent(e) == e.id \notin Keys(current_files)
        acc == scan_current_ge(current_files, prev_files, 1,
                               [new |-> <<>>, modified |-> <<>>])
    IN [new |-> acc.new, modified |-> acc.modified,
        deleted |-> SelectSeq(prev_files, notCurrent)]

\* variant: the comprehension of line 101 without its filter
detect_changes_deleted_all(current_files, index) ==
    LET prev_files == load_previous_index(index)
        acc == scan_current(current_files, prev_files, 1,
                            [new |-> <<>>, modified |-> <<>>])
    IN [new |-> acc.new, modified |-> acc.modified, deleted |-> prev_files]

\* variant: no branch for an id absent from the previous index; its
\* modifiedTime is compared with ''
detect_changes_no_new_branch(current_files, index) ==
    LET prev_files == load_previous_index(index)
        notCurrent(e) == e.id \notin Keys(current_files)
        old(e) == IF e.id \in Keys(prev_files)
                  THEN Lookup(prev_files, e.id).modifiedTime ELSE <<>>
        changed(e) == StrGreater(e.data.modifiedTime, old(e))
    IN [new |-> <<>>, modified |-> SelectSeq(current_files, changed),
        deleted |-> SelectSeq(prev_files, notCurrent)]

\* detect_changes, lines 86-104.  The lists hold the records (fdata); each
\* is kept here together with the id the loop was looking at.
detect_changes(current_files, index) ==
    LET prev_files == load_previous_index(index)
        notCurrent(e) == e.id \notin Keys(current_files)
        acc == scan_current(current_files, prev_files, 1,
                            [new |-> <<>>, modified |-> <<>>])
    IN [new |-> acc.new, modified |-> acc.modified,
        deleted |-> SelectSeq(prev_files, notCurrent)]

\* variant: the ancestor is appended instead of inserted at the front
walk_step_append(parts, pids, fmap) ==
    [path_parts |-> Append(parts, fmap[pids[1]].name),
     parent_ids |-> fmap[pids[1]].parents]

\* one iteration of the while loop of lines 48-54 that does not break
walk_step(parts, pids, fmap) ==
    [path_parts |-> <<fmap[pids[1]].name>> \o parts,
     parent_ids |-> fmap[pids[1]].parents]

\* the loop condition of lines 48-50
walk_continues(pids, fmap) == pids # <<>> /\ pids[1] \in DOMAIN fmap

----------------------------------------------------------------------------
(* The indexer as a state machine.  Drive holds at most two folders and two *)
(* regular files; the listing of all files returns the folders as well.    *)
(* Between runs the regular files may change in any way.  main has no      *)
(* try/except: an exception ends the run where it is raised, pc "failed".  *)

FolderEntry(id, name, parents) == [id |-> id, name |-> name, parents |-> parents]
FileEntry(id, name, mime, parents, mtime) ==
    [id |-> id, name |-> name, mimeType |-> mime, parents |-> parents,
     modifiedTime |-> mtime]

FolderListings ==
    {<<>>}
      \cup {<<FolderEntry("F1", "Docs", p1)>> : p1 \in {<<>>, <<"R0">>}}
      \cup {<<FolderEntry("F1", "Docs", p1), FolderEntry("F2", "Sub", p2)>> :
              p1 \in {<<>>, <<"R0">>, <<"F2">>},
              p2 \in {<<>>, <<"F1">>, <<"F2">>}}

FilesA ==
    {<<>>, <<FileEntry("A", "root", FILE_MIME, <<>>, T_DAY1_MORNING)>>}
      \cup {<<FileEntry("A", "report.txt", FILE_MIME, p, m)>> :
              p \in {<<>>, <<"F1">>, <<"F2", "F1">>},
              m \in {<<>>, T_DAY1_MORNING, T_DAY1_EVENING, T_DAY2}}

FilesB ==
    {<<>>, <<FileEntry("B", "notes.txt", FILE_MIME, <<"R0">>, T_DAY1_MORNING)>>}

RegularFiles == {a \o b : a \in FilesA, b \in FilesB}

\* the folders as the listing of all files returns them
AsFiles(flist) ==
    [i \in 1..Len(flist) |->
       FileEntry(flist[i].id, flist[i].name, FOLDER_MIME, flist[i].parents,
                 T_DAY1_MORNING)]

DriveInit ==
    /\ driveFolders \in FolderListings
    /\ \E r \in RegularFiles : driveFiles = AsFiles(driveFolders) \o r
    /\ indexFile = NoFile
    /\ pc = "idle"
    /\ folders = <<>>
    /\ files = <<>>
    /\ idx = 0
    /\ path_parts = <<>>
    /\ parent_ids = <<>>
    /\ changes = NoChanges
    /\ CredIdle
    /\ UrlIdle
    /\ MailIdle
    /\ ReaderIdle

\* Drive changes between two runs
DriveChange ==
    /\ pc \in {"idle", "failed"}
    /\ \E r \in RegularFiles :
          /\ driveFiles' = AsFiles(driveFolders) \o r
          /\ driveFiles' # driveFiles
    /\ UNCHANGED <<driveFolders, indexFile, pc, folders, files, idx,
                   path_parts, parent_ids, changes, credVars, urlVars,
                   mailVars, readerVars>>

\* the loop of line 43 reaches entry i (or the return of line 68)
EnterFile(i) ==
    IF i <= Len(driveFiles)
    THEN /\ pc' = "walk"
         /\ idx' = i
         /\ path_parts' = <<>>
         /\ parent_ids' = driveFiles[i].parents
    ELSE /\ pc' = "detect"
         /\ idx' = i
         /\ path_parts' = <<>>
         /\ parent_ids' = <<>>

\* main, lines 107-109, and fetch_all_files, lines 24-43
StartRun ==
    /\ pc \in {"idle", "failed"}
    /\ folders' = folders_dict(driveFolders)
    /\ files' = <<>>
    /\ changes' = NoChanges
    /\ EnterFile(1)
    /\ UNCHANGED <<driveFolders, driveFiles, indexFile, credVars, urlVars,
                   mailVars, readerVars>>

\* fetch_all_files, lines 48-52
WalkStep ==
    /\ pc = "walk"
    /\ walk_continues(parent_ids, folders)
    /\ Len(path_parts) < MaxWalk
    /\ LET w == walk_step(path_parts, parent_ids, folders)
       IN /\ path_parts' = w.path_parts
          /\ parent_ids' = w.parent_ids
    /\ UNCHANGED <<driveFolders, driveFiles, indexFile, pc, folders, files,
                   idx, changes, credVars, urlVars,
                   mailVars, readerVars>>

\* fetch_all_files, lines 53-66: the loop is left, the file is recorded
\* unless it is named "root", and the next file is entered
FinishFile ==
    /\ pc = "walk"
    /\ ~walk_continues(parent_ids, folders)
    /\ LET f == driveFiles[idx]
       IN files' = IF f.name = "root" THEN files
                   ELSE DictSet(files, f.id, file_record(f, path_parts))
    /\ EnterFile(idx + 1)
    /\ UNCHANGED <<driveFolders, driveFiles, indexFile, folders, changes,
                   credVars, urlVars,
                   mailVars, readerVars>>

\* variant: the index is written as soon as the changes are known
DetectChangesAndSave ==
    /\ pc = "detect"
    /\ changes' = detect_changes(files, indexFile)
    /\ indexFile' = save_index(files, now)
    /\ pc' = "save"
    /\ UNCHANGED <<driveFolders, driveFiles, folders, files, idx,
                   path_parts, parent_ids, credVars, urlVars,
                   mailVars, readerVars>>

\* main, line 110
DetectChanges ==
    /\ pc = "detect"
    /\ changes' = detect_changes(files, indexFile)
    /\ pc' = "save"
    /\ UNCHANGED <<driveFolders, driveFiles, indexFile, folders, files, idx,
                   path_parts, parent_ids, credVars, urlVars,
                   mailVars, readerVars>>

\* main, line 117
SaveIndex ==
    /\ pc = "save"
    /\ indexFile' = save_index(files, now)
    /\ pc' = "idle"
    /\ UNCHANGED <<driveFolders, driveFiles, folders, files, idx, path_parts,
                   parent_ids, changes, credVars, urlVars,
                   mailVars, readerVars>>

\* main, lines 107-109: get_drive_service or one of the two listings of
\* fetch_all_files raises (no token file, HTTP error); nothing was fetched
StartRunFails ==
    /\ pc \in {"idle", "failed"}
    /\ pc' = "failed"
    /\ folders' = <<>>
    /\ files' = <<>>
    /\ idx' = 0
    /\ path_parts' = <<>>
    /\ parent_ids' = <<>>
    /\ changes' = NoChanges
    /\ UNCHANGED <<driveFolders, driveFiles, indexFile, credVars, urlVars,
                   mailVars, readerVars>>

\* main, lines 109-116: the run ends with an exception or is interrupted
\* after the listings and before the save_index call of line 117; what the
\* process held in memory is gone
RunFails ==
    /\ pc \in {"walk", "detect", "save"}
    /\ pc' = "failed"
    /\ folders' = <<>>
    /\ files' = <<>>
    /\ idx' = 0
    /\ path_parts' = <<>>
    /\ parent_ids' = <<>>
    /\ changes' = NoChanges
    /\ UNCHANGED <<driveFolders, driveFiles, indexFile, credVars, urlVars,
                   mailVars, readerVars>>

DriveNext ==
    \/ DriveChange
    \/ StartRun
    \/ StartRunFails
    \/ RunFails
    \/ WalkStep
    \/ FinishFile
    \/ DetectChanges
    \/ SaveIndex

SpecDrive == DriveInit /\ [][DriveNext]_vars

----------------------------------------------------------------------------
(* Properties of the Drive indexer *)

\* the entry of the file listing with this id
Listed(id) == driveFiles[CHOOSE i \in 1..Len(driveFiles) : driveFiles[i].id = id]

\* the names of the ancestors found by following the first parent through
\* the folder map, outermost first; at most fuel ancestors
RECURSIVE AncestorNames(_, _, _)
AncestorNames(fmap, pids, fuel) ==
    IF fuel = 0 \/ pids = <<>> THEN <<>>
    ELSE IF pids[1] \notin DOMAIN fmap THEN <<>>
    ELSE AncestorNames(fmap, fmap[pids[1]].parents, fuel - 1)
           \o <<fmap[pids[1]].name>>

\* names joined with "/", built from the left
RECURSIVE PathOf(_)
PathOf(names) ==
    IF Len(names) = 1 THEN names[1]
    ELSE PathOf(SubSeq(names, 1, Len(names) - 1)) \o "/" \o names[Len(names)]

ExpectedPath(f) ==
    PathOf(AncestorNames(folders, f.parents, Cardinality(DOMAIN folders))
             \o <<f.name>>)

\* C9: during a run, every file recorded so far is a listed file not named
\* "root" whose path is the names of its first-parent ancestors, outermost
\* first, followed by its own name, joined with "/"; every listed file not
\* named "root" that the loop has passed is recorded; and folder F1 "Docs"
\* without parents with file A "report.txt" in [F1] gives "Docs/report.txt".
C9_PathFollowsFirstParents ==
    pc \in {"walk", "detect", "save"} =>
      /\ \A i \in 1..Len(files) :
            /\ Listed(files[i].id).name # "root"
            /\ files[i].data.name = Listed(files[i].id).name
            /\ files[i].data.path = ExpectedPath(Listed(files[i].id))
      /\ \A j \in 1..(idx - 1) :
            driveFiles[j].name # "root" => driveFiles[j].id \in Keys(files)
      /\ ( /\ "A" \in Keys(files)
           /\ Listed("A").name = "report.txt"
           /\ Listed("A").parents = <<"F1">>
           /\ "F1" \in DOMAIN folders
           /\ folders["F1"] = [name |-> "Docs", parents |-> <<>>] )
          => Lookup(files, "A").path = "Docs/report.txt"

\* a file with two parents below a two-level chain that ends at a parent id
\* absent from the folder map
C9_Witness ==
    /\ pc = "save"
    /\ "A" \in Keys(files)
    /\ Listed("A").parents = <<"F2", "F1">>
    /\ {"F1", "F2"} \subseteq DOMAIN folders
    /\ folders["F2"].parents = <<"F1">>
    /\ folders["F1"].parents = <<"R0">>
    /\ Lookup(files, "A").path = "Docs/Sub/report.txt"

\* a is lexicographically greater than b
RECURSIVE LexGreater(_, _)
LexGreater(a, b) ==
    IF a = <<>> THEN FALSE
    ELSE IF b = <<>> THEN TRUE
    ELSE IF Head(a) # Head(b) THEN Ord(Head(a)) > Ord(Head(b))
    ELSE LexGreater(Tail(a), Tail(b))

\* the previous index as stored on disk
PrevFiles == IF indexFile = NoFile THEN <<>> ELSE indexFile.files
NewIds == Keys(files) \ Keys(PrevFiles)
DeletedIds == Keys(PrevFiles) \ Keys(files)
ModifiedIds ==
    {id \in Keys(files) \cap Keys(PrevFiles) :
        LexGreater(Lookup(files, id).modifiedTime,
                   Lookup(PrevFiles, id).modifiedTime)}
IdsOf(list) == {list[i].id : i \in 1..Len(list)}

\* C10: when detect_changes has returned (and the index is not yet saved),
\* new holds exactly one record per id in current and not in previous,
\* deleted exactly one previous record per id in previous and not in
\* current, modified exactly one record per id in both whose current
\* modifiedTime is lexicographically greater than the previous one; the
\* three id sets are pairwise disjoint.
C10_DetectChangesExact ==
    pc = "save" =>
      /\ IdsOf(changes.new) = NewIds
      /\ Len(changes.new) = Cardinality(NewIds)
      /\ \A i \in 1..Len(changes.new) :
            changes.new[i].data = Lookup(files, changes.new[i].id)
      /\ IdsOf(changes.modified) = ModifiedIds
      /\ Len(changes.modified) = Cardinality(ModifiedIds)
      /\ \A i \in 1..Len(changes.modified) :
            changes.modified[i].data = Lookup(files, changes.modified[i].id)
      /\ IdsOf(changes.deleted) = DeletedIds
      /\ Len(changes.deleted) = Cardinality(DeletedIds)
      /\ \A i \in 1..Len(changes.deleted) :
            changes.deleted[i].data = Lookup(PrevFiles, changes.deleted[i].id)
      /\ IdsOf(changes.new) \cap IdsOf(changes.modified) = {}
      /\ IdsOf(changes.new) \cap IdsOf(changes.deleted) = {}
      /\ IdsOf(changes.modified) \cap IdsOf(changes.deleted) = {}

\* one run reported a modified and a deleted file at once, next to a
\* folder present in both snapshots with the same date, which is not reported
C10_Witness ==
    /\ pc = "save"
    /\ IdsOf(changes.deleted) = {"B"}
    /\ IdsOf(changes.modified) = {"A"}
    /\ IdsOf(changes.new) = {}
    /\ "F1" \in Keys(files) \cap Keys(PrevFiles)

\* C11: when the previous index is empty (no index file, or an index whose
\* files are empty), detect_changes reports every file of current as new,
\* in the order of current, and nothing as modified or deleted.
C11_EmptyPreviousAllNew ==
    (pc = "save" /\ (indexFile = NoFile \/ indexFile.files = <<>>)) =>
      /\ changes.new = files
      /\ changes.modified = <<>>
      /\ changes.deleted = <<>>

\* a run over two files and a folder that found an index file holding no
\* files (written by an earlier run over a Drive without recordable files)
C11_Witness ==
    /\ pc = "save"
    /\ indexFile # NoFile
    /\ indexFile.files = <<>>
    /\ Len(files) = 2
    /\ Len(changes.new) = 2

\* C12: an id present in both the previous and the current snapshot with the
\* same modifiedTime is in none of new, modified, deleted.
C12_UnchangedNotReported ==
    pc = "save" =>
      \A id \in Keys(files) \cap Keys(PrevFiles) :
         Lookup(files, id).modifiedTime = Lookup(PrevFiles, id).modifiedTime
           => id \notin IdsOf(changes.new) \cup IdsOf(changes.modified)
                         \cup IdsOf(changes.deleted)

\* file A was changed again on the day it was indexed (the stored date is
\* the same) while file B is new: A is not reported, B is
C12_Witness ==
    /\ pc = "save"
    /\ "A" \in Keys(files) \cap Keys(PrevFiles)
    /\ Listed("A").modifiedTime = T_DAY1_EVENING
    /\ Lookup(PrevFiles, "A").modifiedTime = Prefix(T_DAY1_MORNING, 10)
    /\ IdsOf(changes.new) = {"B"}
    /\ "A" \notin IdsOf(changes.modified) \cup IdsOf(changes.deleted)

\* C13: the index file changes only in the save_index step of a run whose
\* listing is complete and whose detect_changes has returned, and then
\* holds exactly the current files; a step that ends a run in failure
\* leaves the index file as it was.
C13_IndexWrittenOnlyBySaveIndex ==
    [][ /\ indexFile' # indexFile =>
              /\ pc = "save" /\ pc' = "idle"
              /\ idx = Len(driveFiles) + 1
              /\ changes = detect_changes(files, indexFile)
              /\ indexFile' # NoFile
              /\ indexFile'.files = files
        /\ pc' = "failed" => indexFile' = indexFile ]_vars

\* a run over a Drive that lost file B and got file A has failed: the index
\* on disk is still the snapshot of the last run that reached save_index
C13_Witness ==
    /\ pc = "failed"
    /\ indexFile # NoFile
    /\ "B" \in Keys(indexFile.files)
    /\ "A" \notin Keys(indexFile.files)
    /\ \A i \in 1..Len(driveFiles) : driveFiles[i].id # "B"
    /\ \E i \in 1..Len(driveFiles) :
          driveFiles[i].id = "A" /\ driveFiles[i].name # "root"

\* C17: the ancestor walk of every file ends.  The walk is a function of
\* the folder map and the parents list it holds, so it ends only if it
\* enters no folder twice: whenever the loop is about to run once more,
\* it has collected fewer ancestors than the folder map has folders.
C17_AncestorWalkTerminates ==
    (pc = "walk" /\ walk_continues(parent_ids, folders)) =>
        Len(path_parts) < Cardinality(DOMAIN folders)

\* C18: a run that fetched the very mapping the previous run stored (two
\* consecutive runs over an unchanged Drive) gets empty new, modified and
\* deleted lists from detect_changes, and its save_index leaves the stored
\* files as they were.
C18_UnchangedDriveNoChanges ==
    /\ []((pc = "save" /\ indexFile # NoFile /\ indexFile.files = files)
            => changes = NoChanges)
    /\ [][(pc = "save" /\ pc' = "idle" /\ indexFile # NoFile
             /\ indexFile.files = files)
            => (indexFile' # NoFile /\ indexFile'.files = indexFile.files)]_vars

\* a later run over a folder and two files is about to save: the index of
\* the run before holds the same three records and nothing was reported
C18_Witness ==
    /\ pc = "save"
    /\ indexFile # NoFile
    /\ indexFile.files = files
    /\ Keys(files) = {"F1", "A", "B"}
    /\ idx = Len(driveFiles) + 1
    /\ changes = NoChanges

----------------------------------------------------------------------------
(* Exit codes of the entry points *)

\* C14: after every script run, the run hit an unrecoverable error (its
\* outcome is not "ok") exactly when its exit code is 1, and the exit code
\* is 0 otherwise; this includes setup.py without client_secrets.json.
C14_ErrorsExitNonZero ==
    lastRun.script # "none" =>
      /\ lastRun.exit \in {0, 1}
      /\ lastRun.outcome # "ok" <=> lastRun.exit = 1

----------------------------------------------------------------------------
(* GmailReader.categorize_priority (src/gmail_reader.py).  Subjects and     *)
(* senders are sequences of characters; an email is a dict that may lack   *)
(* either key.                                                             *)

\* str.lower() on one character (ASCII)
lower_char(c) ==
    CASE c = "A" -> "a" [] c = "B" -> "b" [] c = "C" -> "c" [] c = "D" -> "d"
      [] c = "E" -> "e" [] c = "F" -> "f" [] c = "G" -> "g" [] c = "H" -> "h"
      [] c = "I" -> "i" [] c = "J" -> "j" [] c = "K" -> "k" [] c = "L" -> "l"
      [] c = "M" -> "m" [] c = "N" -> "n" [] c = "O" -> "o" [] c = "P" -> "p"
      [] c = "Q" -> "q" [] c = "R" -> "r" [] c = "S" -> "s" [] c = "T" -> "t"
      [] c = "U" -> "u" [] c = "V" -> "v" [] c = "W" -> "w" [] c = "X" -> "x"
      [] c = "Y" -> "y" [] c = "Z" -> "z" [] OTHER -> c

\* str.lower()
lower(str) == [i \in 1..Len(str) |-> lower_char(str[i])]

\* kw in text
contains(text, kw) ==
    \E i \in 1..(Len(text) - Len(kw) + 1) :
        SubSeq(text, i, i + Len(kw) - 1) = kw

\* lines 178-179
high_keywords ==
    <<<<"s", "c", "h", "o", "o", "l">>,
      <<"m", "e", "d", "i", "c", "a", "l">>,
      <<"d", "o", "c", "t", "o", "r">>,
      <<"i", "n", "s", "u", "r", "a", "n", "c", "e">>,
      <<"u", "r", "g", "e", "n", "t">>,
      <<"e", "m", "e", "r", "g", "e", "n", "c", "y">>,
      <<"b", "i", "l", "l", "i", "n", "g">>,
      <<"p", "a", "y", "m", "e", "n", "t", " ", "d", "u", "e">>>>

\* lines 180-181
medium_keywords ==
    <<<<"w", "o", "r", "k">>,
      <<"o", "r", "a", "c", "l", "e">>,
      <<"s", "h", "i", "p", "p", "i", "n", "g">>,
      <<"a", "p", "p", "o", "i", "n", "t", "m", "e", "n", "t">>,
      <<"m", "e", "e", "t", "i", "n", "g">>,
      <<"c", "a", "l", "e", "n", "d", "a", "r">>>>

\* for kw in keywords: if kw in text: return ..., from keyword i on
RECURSIVE any_keyword(_, _, _)
any_keyword(text, keywords, i) ==
    IF i > Len(keywords) THEN FALSE
    ELSE IF contains(text, keywords[i]) THEN TRUE
    ELSE any_keyword(text, keywords, i + 1)

\* line 176
priority_text(e) ==
    lower(Get(e, "subject", <<>>) \o <<" ">> \o Get(e, "sender", <<>>))

\* variant: the MEDIUM loop runs before the HIGH loop
categorize_priority_medium_first(e) ==
    LET text == priority_text(e)
    IN IF any_keyword(text, medium_keywords, 1) THEN "MEDIUM"
       ELSE IF any_keyword(text, high_keywords, 1) THEN "HIGH"
       ELSE "LOW"

\* categorize_priority, lines 170-191
categorize_priority(e) ==
    LET text == priority_text(e)
    IN IF any_keyword(text, high_keywords, 1) THEN "HIGH"
       ELSE IF any_keyword(text, medium_keywords, 1) THEN "MEDIUM"
       ELSE "LOW"

\* Subject and From headers of the emails
S_URGENT_MEETING ==
    <<"U", "r", "g", "e", "n", "t", " ", "m", "e", "e", "t", "i", "n",
      "g">>
S_TEAM_MEETING ==
    <<"T", "e", "a", "m", " ", "M", "e", "e", "t", "i", "n", "g">>
S_URGENT ==
    <<"U", "R", "G", "E", "N", "T">>
S_HELLO ==
    <<"H", "e", "l", "l", "o">>
S_PAYMENT ==
    <<"P", "a", "y", "m", "e", "n", "t">>
S_NETWORK ==
    <<"N", "e", "t", "w", "o", "r", "k", " ", "n", "e", "w", "s">>
S_INSURANCE ==
    <<"Y", "o", "u", "r", " ", "I", "n", "s", "u", "r", "a", "n", "c",
      "e">>
S_LUNCH ==
    <<"L", "u", "n", "c", "h", "?">>
S_CALENDAR ==
    <<"R", "e", ":", " ", "c", "a", "l", "e", "n", "d", "a", "r">>
F_PLAIN ==
    <<"a", "@", "b", ".", "i", "o">>
F_DUE ==
    <<"D", "u", "e", "@", "x", ".", "i", "o">>
F_DOCTOR ==
    <<"D", "o", "c", "t", "o", "r", "@", "C", "l", "i", "n", "i", "c",
      ".", "o", "r", "g">>
F_ORACLE ==
    <<"h", "r", "@", "O", "r", "a", "c", "l", "e", ".", "c", "o", "m">>
F_SHOP ==
    <<"S", "h", "i", "p", "p", "i", "n", "g", "@", "s", "h", "o", "p",
      ".", "i", "o">>

Subjects ==
    {<<>>, S_URGENT_MEETING, S_TEAM_MEETING, S_URGENT, S_HELLO, S_PAYMENT, S_NETWORK, S_INSURANCE, S_LUNCH, S_CALENDAR}
Senders ==
    {<<>>, F_PLAIN, F_DUE, F_DOCTOR, F_ORACLE, F_SHOP}

\* the dicts fetch_emails builds, and dicts a caller built without one of
\* the two keys
Emails ==
    [subject : Subjects, sender : Senders]
      \cup [subject : Subjects] \cup [sender : Senders]

MailInit ==
    /\ email \in Emails
    /\ priority = "none"
    /\ CredIdle
    /\ UrlIdle
    /\ DriveIdle
    /\ ReaderIdle

\* main, line 300
CategorizePriority ==
    /\ priority = "none"
    /\ priority' = categorize_priority(email)
    /\ UNCHANGED <<email, credVars, urlVars, driveVars, readerVars>>

MailNext == CategorizePriority

SpecMail == MailInit /\ [][MailNext]_vars

\* keyword kw occurs in the subject, a space and the sender of the email,
\* letters compared without regard to case
OccursIn(kw, e) ==
    LET raw == Get(e, "subject", <<>>) \o <<" ">> \o Get(e, "sender", <<>>)
    IN \E off \in 0..(Len(raw) - Len(kw)) :
          \A j \in 1..Len(kw) : lower_char(raw[off + j]) = kw[j]
HasHigh(e) == \E k \in 1..Len(high_keywords) : OccursIn(high_keywords[k], e)
HasMedium(e) ==
    \E k \in 1..Len(medium_keywords) : OccursIn(medium_keywords[k], e)

\* C15: categorize_priority returns HIGH exactly when a HIGH keyword occurs
\* in the text (whether or not a MEDIUM keyword occurs too), MEDIUM exactly
\* when no HIGH and some MEDIUM keyword occurs, LOW otherwise, letters
\* matched case-insensitively; subject "Urgent meeting" is HIGH.
C15_PriorityByKeywords ==
    priority # "none" =>
      /\ priority = "HIGH" <=> HasHigh(email)
      /\ priority = "MEDIUM" <=> (~HasHigh(email) /\ HasMedium(email))
      /\ priority = "LOW" <=> (~HasHigh(email) /\ ~HasMedium(email))
      /\ Get(email, "subject", <<>>) = S_URGENT_MEETING => priority = "HIGH"

\* "Urgent meeting" from a sender without keyword: a HIGH and a MEDIUM
\* keyword, the HIGH one in another case than the keyword list has it
C15_Witness ==
    /\ priority = "HIGH"
    /\ email = [subject |-> S_URGENT_MEETING, sender |-> F_PLAIN]
    /\ HasMedium(email)

----------------------------------------------------------------------------
(* One GmailReader instance (src/gmail_reader.py): __init__ sets service to *)
(* None, and connect, fetch_emails, send_email and get_profile are called  *)
(* in any order.  A caller may catch an exception and call again.  The     *)
(* token endpoint answers each get_credentials call with some response;    *)
(* the Gmail API request that follows connect succeeds or raises.          *)

\* variant: connect without the test of line 86
connect_always(svc, file, secrets, t, resp) ==
    LET r == get_credentials(file, secrets, t, resp)
    IN [service |-> IF r.outcome = "ok" THEN "built" ELSE svc,
        outcome |-> r.outcome,
        file |-> r.file,
        gc |-> 1,
        reads |-> IF file = NoFile THEN 0 ELSE 1]

\* connect, lines 84-89, with what get_credentials did on the way: gc is
\* the number of get_credentials calls, reads the number of times line 61
\* read token.json
connect(svc, file, secrets, t, resp) ==
    IF svc = "None"
    THEN LET r == get_credentials(file, secrets, t, resp)
         IN [service |-> IF r.outcome = "ok" THEN "built" ELSE "None",
             outcome |-> r.outcome,
             file |-> r.file,
             gc |-> 1,
             reads |-> IF file = NoFile THEN 0 ELSE 1]
    ELSE [service |-> svc, outcome |-> "ok", file |-> file, gc |-> 0,
          reads |-> 0]

\* token.json as one of the scripts left it at time 0, or absent
ReaderTokenFiles ==
    {NoFile}
      \cup {manual_oauth_main(NoFile, sec, resp, 0).file :
               sec \in ClientSecretsFiles, resp \in TokenResponses}
      \cup {exchange_code(NoFile, sec, resp).file :
               sec \in ClientSecretsFiles, resp \in TokenResponses}
      \cup {oauth_exchange_main(NoFile, sec, resp, 0).file :
               sec \in ClientSecretsFiles, resp \in TokenResponses}

\* __init__, lines 46-53
ReaderInit ==
    /\ now \in 0..MaxTime
    /\ clientSecrets \in ClientSecretsFiles \cup {NoFile}
    /\ tokenFile \in ReaderTokenFiles
    /\ lastRun = NoRun
    /\ ReaderIdle
    /\ UrlIdle
    /\ DriveIdle
    /\ MailIdle

\* a method that starts with self.connect() and then sends one request
\* (apiOk: the request does not raise)
MethodCall(method, resp, apiOk) ==
    /\ methodCalls < MaxCalls
    /\ LET c == connect(service, tokenFile, clientSecrets, now, resp)
       IN /\ service' = c.service
          /\ tokenFile' = c.file
          /\ gcCalls' = gcCalls + c.gc
          /\ gcFailed' = gcFailed + (IF c.outcome = "ok" THEN 0 ELSE c.gc)
          /\ fileReads' = fileReads + c.reads
          /\ lastCall' = [method |-> method,
                          outcome |-> IF c.outcome # "ok" THEN c.outcome
                                      ELSE IF apiOk THEN "ok"
                                      ELSE "HttpError"]
    /\ methodCalls' = methodCalls + 1
    /\ UNCHANGED <<now, clientSecrets, lastRun, urlVars, driveVars, mailVars>>

\* connect, lines 84-89
Connect == \E resp \in TokenResponses : MethodCall("connect", resp, TRUE)

\* fetch_emails, lines 103-115
FetchEmails ==
    \E resp \in TokenResponses, apiOk \in BOOLEAN :
        MethodCall("fetch_emails", resp, apiOk)

\* send_email, lines 206-219
SendEmail ==
    \E resp \in TokenResponses, apiOk \in BOOLEAN :
        MethodCall("send_email", resp, apiOk)

\* get_profile, lines 225-226
GetProfile ==
    \E resp \in TokenResponses, apiOk \in BOOLEAN :
        MethodCall("get_profile", resp, apiOk)

ReaderNext ==
    \/ Connect
    \/ FetchEmails
    \/ SendEmail
    \/ GetProfile

SpecReader == ReaderInit /\ [][ReaderNext]_vars

\* C16 as stated: whatever calls were made on the instance, and whether or
\* not an earlier one failed, token.json was read at most once and
\* credentials were obtained (get_credentials returned) at most once.
C16_Original ==
    fileReads <= 1 /\ gcCalls - gcFailed <= 1

\* C16, amended: once connect has built the service, no later call reads
\* token.json, calls get_credentials or changes token.json, also after a
\* failed API request; get_credentials succeeds at most once per instance;
\* while no service is built every get_credentials call so far has raised,
\* and token.json is read at most once per get_credentials call.
C16_ServiceBuiltOnceThenReused ==
    /\ [](/\ service = "built" <=> gcCalls = gcFailed + 1
          /\ service = "None" <=> gcCalls = gcFailed
          /\ fileReads <= gcCalls)
    /\ [][service = "built" =>
            /\ service' = "built"
            /\ gcCalls' = gcCalls
            /\ fileReads' = fileReads
            /\ tokenFile' = tokenFile]_vars

\* the first call raised in get_credentials, the second built the service,
\* the third reused it: two get_credentials calls and two reads of
\* token.json in all
C16_Witness ==
    /\ service = "built"
    /\ methodCalls = 3
    /\ gcCalls = 2
    /\ gcFailed = 1
    /\ fileReads = 2

====
